---- MODULE Spec2Model ----
(***************************************************************************)
(* Hospital Management Ontology: the query execution and reporting         *)
(* harness of validation_queries.py (execute_query, its 42 call sites and  *)
(* main) and the module-level query blocks of Ontology_queries.py.         *)
(*                                                                         *)
(* The RDF/SPARQL engine (rdflib) is the environment: a load yields a      *)
(* graph or fails, a query yields a finite lazy row sequence and may fail  *)
(* at submission or while the rows are being pulled.                       *)
(***************************************************************************)
EXTENDS Integers, Sequences, FiniteSets, TLC

VARIABLES
    mpc,            \* position of the script (module level and main)
    qidx,           \* number of the catalogue query last invoked (0: none yet)
    graph,          \* g: the set of triples
    loadedGraph,    \* history: the set of triples right after g.parse
    sessionFailed,  \* history: some earlier execute_query call of this run failed
    epc,            \* position inside execute_query ("idle": not in a call)
    limit,          \* execute_query's limit parameter
    res,            \* what g.query(query) yields for the current call
    pulled,         \* rows pulled so far from the lazy result sequence
    row,            \* loop variable of "for row in results"
    count,          \* execute_query's running row counter
    out,            \* lines printed by the current execute_query call
    exc,            \* the exception in flight ("none": no exception)
    lastFailed,     \* history: the except clause of the current/last call ran
    ret,            \* value returned by the last execute_query call
    summary,        \* the figures printed by main's summary statistics
    acc             \* Ontology_queries.py: total_appointments, problem_count
                    \* and problem_rate (validation_queries.py has none)

vars == <<mpc, qidx, graph, loadedGraph, sessionFailed, epc, limit, res,
          pulled, row, count, out, exc, lastFailed, ret, summary, acc>>

callVars == <<epc, limit, res, pulled, row, count, out, exc, lastFailed, ret>>

-----------------------------------------------------------------------------
(* Bounds of the model *)

\* longest result sequence of one execute_query call in the harness runs
MaxRows == 4
\* largest limit argument tried in the harness runs
MaxLimit == 3
\* rows beyond DefaultLimit a catalogue query may yield in a run of main
MainExtraRows == 1

(* Program constants *)

\* def execute_query(query, description, limit=10)
DefaultLimit == 10
\* q1 .. q42, "All 42 competency questions executed"
NumQueries == 42

-----------------------------------------------------------------------------
(* Python values *)

PyNone == [tag |-> "None", n |-> 0]
PyInt(k) == [tag |-> "int", n |-> k]
PyUnset == [tag |-> "unset", n |-> 0]

(* Printed lines *)

Line(kind, val, msg) == [kind |-> kind, val |-> val, msg |-> msg]
HeaderLine == Line("header", 0, "")
RowLine(v) == Line("row", v, "")
NoticeLine == Line("notice", 0, "... (results limited)")
NoResultsLine == Line("none", 0, "No results found")
TotalLine(n) == Line("total", n, "")
ErrorLine(e) == Line("error", 0, e)

-----------------------------------------------------------------------------
(* The graph *)

Triple(s, p, o) == [s |-> s, p |-> p, o |-> o]

\* the statements an ontology file may hold
TripleUniverse ==
    { Triple("c1", "rdf:type", "owl:Class"),
      Triple("c1", "rdf:type", "owl:ObjectProperty"),
      Triple("p1", "rdf:type", "owl:DatatypeProperty"),
      Triple("i1", "rdf:type", "hmo:Patient") }

Ontologies == SUBSET TripleUniverse

\* set(g.subjects(RDF.type, o)); o = "any" is the None wildcard
Subjects(g, o) == { t.s : t \in { u \in g : u.p = "rdf:type" /\ (o = "any" \/ u.o = o) } }

-----------------------------------------------------------------------------
(* The engine *)

RowVals == {1, 2}
SubmitFailures == {"SyntaxError", "ExecutionError"}
IterFailures == {"TypeError", "ExecutionError"}

SeqsUpTo(vals, n) == UNION { [1..k -> vals] : k \in 0..n }

NoResult == [rows |-> <<>>, stage |-> "none", desc |-> "none"]

\* The outcomes of g.query(query): a row sequence that ends normally
\* (stage "none"), a failure at submission (stage "submit"), or a row
\* sequence whose next pull after its last row fails (stage "iter").
Outcomes(rowSeqs) ==
    { [rows |-> r, stage |-> "none", desc |-> "none"] : r \in rowSeqs }
    \cup { [rows |-> <<>>, stage |-> "submit", desc |-> d] : d \in SubmitFailures }
    \cup { [rows |-> r, stage |-> "iter", desc |-> d] : r \in rowSeqs, d \in IterFailures }

HarnessOutcomes == Outcomes(SeqsUpTo(RowVals, MaxRows))
MainOutcomes == Outcomes({ [i \in 1..k |-> 1] : k \in 0..(DefaultLimit + MainExtraRows) })

Limits == 0..MaxLimit

-----------------------------------------------------------------------------
(* Initial states *)

InitCall ==
    /\ epc = "idle"
    /\ limit = DefaultLimit
    /\ res = NoResult
    /\ pulled = 0
    /\ row = 0
    /\ count = 0
    /\ out = <<>>
    /\ exc = "none"
    /\ lastFailed = FALSE
    /\ ret = PyUnset

NoSummary == [triples |-> 0, classes |-> 0, properties |-> 0,
              individuals |-> 0, executed |-> 0, status |-> "none"]

\* a ratio num/den; Python's int 0 is the ratio 0/1
Ratio(num, den) == [num |-> num, den |-> den]

\* no aggregate has been computed; status_rows and rated are history:
\* the rows of results3 the loop went through, and whether line 132 ran
NoAcc == [total_appointments |-> 0, problem_count |-> 0,
          problem_rate |-> Ratio(0, 1), status_rows |-> 0, rated |-> FALSE]

\* validation_queries.py starts: nothing is loaded yet
Init ==
    /\ mpc = "load"
    /\ qidx = 0
    /\ graph = {}
    /\ loadedGraph = {}
    /\ sessionFailed = FALSE
    /\ summary = NoSummary
    /\ acc = NoAcc
    /\ InitCall

-----------------------------------------------------------------------------
(* validation_queries.py, module level *)

\* g.parse(...) succeeds; the g.bind calls add prefixes, no triples
Load ==
    /\ mpc = "load"
    /\ \E o \in Ontologies :
        /\ graph' = o
        /\ loadedGraph' = o
    /\ mpc' = "loaded"
    /\ UNCHANGED <<qidx, sessionFailed, summary>>
    /\ UNCHANGED callVars
    /\ UNCHANGED acc

\* a load whose exception is swallowed: the run goes on with an empty graph
LoadFailContinue ==
    /\ mpc = "load"
    /\ mpc' = "loaded"
    /\ exc' = "LoadError"
    /\ UNCHANGED <<qidx, graph, loadedGraph, sessionFailed, summary>>
    /\ UNCHANGED <<epc, limit, res, pulled, row, count, out, lastFailed, ret>>
    /\ UNCHANGED acc

\* g.parse(...) raises: nothing catches it, the interpreter stops
LoadFail ==
    /\ mpc = "load"
    /\ mpc' = "aborted"
    /\ exc' = "LoadError"
    /\ UNCHANGED <<qidx, graph, loadedGraph, sessionFailed, summary>>
    /\ UNCHANGED <<epc, limit, res, pulled, row, count, out, lastFailed, ret>>
    /\ UNCHANGED acc

-----------------------------------------------------------------------------
(* execute_query *)

\* entry of execute_query with limit l: the three header prints
Call(l) ==
    /\ epc = "idle"
    /\ epc' = "try"
    /\ limit' = l
    /\ out' = <<HeaderLine>>
    /\ lastFailed' = FALSE
    /\ sessionFailed' = (sessionFailed \/ lastFailed)
    /\ pulled' = 0
    /\ res' = NoResult
    /\ UNCHANGED <<row, count, exc, ret>>

\* what g.query does to the store: the catalogue holds SELECT queries only,
\* which read the triples and add or remove none
QueryEffectInsert(g) == g \cup {Triple("q", "rdf:type", "hmo:QueryResult")}

QueryEffect(g) == g

\* results = g.query(query); count = 0
SubmitKeepCount(outcomes) ==
    /\ epc = "try"
    /\ \E o \in outcomes :
        /\ res' = o
        /\ IF o.stage = "submit"
             THEN /\ exc' = o.desc
                  /\ epc' = "except"
             ELSE /\ exc' = exc
                  /\ epc' = "for"
    /\ graph' = QueryEffect(graph)
    /\ UNCHANGED <<mpc, qidx, loadedGraph, sessionFailed, summary>>
    /\ UNCHANGED <<limit, pulled, row, count, out, lastFailed, ret>>
    /\ UNCHANGED acc

Submit(outcomes) ==
    /\ epc = "try"
    /\ \E o \in outcomes :
        /\ res' = o
        /\ IF o.stage = "submit"
             THEN /\ exc' = o.desc
                  /\ epc' = "except"
                  /\ count' = count
             ELSE /\ exc' = exc
                  /\ epc' = "for"
                  /\ count' = 0
    /\ graph' = QueryEffect(graph)
    /\ UNCHANGED <<mpc, qidx, loadedGraph, sessionFailed, summary>>
    /\ UNCHANGED <<limit, pulled, row, out, lastFailed, ret>>
    /\ UNCHANGED acc

\* for row in results, with an iterator that starts over at every pull
ForNextRepeat ==
    /\ epc = "for"
    /\ IF pulled < Len(res.rows)
         THEN /\ row' = res.rows[1]
              /\ pulled' = pulled + 1
              /\ epc' = "body"
              /\ exc' = exc
         ELSE IF res.stage = "iter"
                THEN /\ exc' = res.desc
                     /\ epc' = "except"
                     /\ UNCHANGED <<row, pulled>>
                ELSE /\ epc' = "after"
                     /\ UNCHANGED <<row, pulled, exc>>
    /\ UNCHANGED <<mpc, qidx, graph, loadedGraph, sessionFailed, summary>>
    /\ UNCHANGED <<limit, res, count, out, lastFailed, ret>>
    /\ UNCHANGED acc

\* for row in results: the iterator is asked for the next row
ForNext ==
    /\ epc = "for"
    /\ IF pulled < Len(res.rows)
         THEN /\ row' = res.rows[pulled + 1]
              /\ pulled' = pulled + 1
              /\ epc' = "body"
              /\ exc' = exc
         ELSE IF res.stage = "iter"
                THEN /\ exc' = res.desc
                     /\ epc' = "except"
                     /\ UNCHANGED <<row, pulled>>
                ELSE /\ epc' = "after"
                     /\ UNCHANGED <<row, pulled, exc>>
    /\ UNCHANGED <<mpc, qidx, graph, loadedGraph, sessionFailed, summary>>
    /\ UNCHANGED <<limit, res, count, out, lastFailed, ret>>
    /\ UNCHANGED acc

\* print(" | ".join(...)); count += 1
PrintRow ==
    /\ epc = "body"
    /\ out' = Append(out, RowLine(row))
    /\ count' = count + 1
    /\ epc' = "check"
    /\ UNCHANGED <<mpc, qidx, graph, loadedGraph, sessionFailed, summary>>
    /\ UNCHANGED <<limit, res, pulled, row, exc, lastFailed, ret>>
    /\ UNCHANGED acc

\* if count >= limit
LimitReachedStrict(c, l) == c > l

LimitReached(c, l) == c >= l

\* the limit check with the break left out
CheckLimitNoBreak ==
    /\ epc = "check"
    /\ out' = (IF LimitReached(count, limit) THEN Append(out, NoticeLine) ELSE out)
    /\ epc' = "for"
    /\ UNCHANGED <<mpc, qidx, graph, loadedGraph, sessionFailed, summary>>
    /\ UNCHANGED <<limit, res, pulled, row, count, exc, lastFailed, ret>>
    /\ UNCHANGED acc

\* if count >= limit: print("... (results limited)"); break
CheckLimit ==
    /\ epc = "check"
    /\ IF LimitReached(count, limit)
         THEN /\ out' = Append(out, NoticeLine)
              /\ epc' = "after"
         ELSE /\ out' = out
              /\ epc' = "for"
    /\ UNCHANGED <<mpc, qidx, graph, loadedGraph, sessionFailed, summary>>
    /\ UNCHANGED <<limit, res, pulled, row, count, exc, lastFailed, ret>>
    /\ UNCHANGED acc

\* if count == 0: print("No results found"); print(f"Total results: {count}")
AfterLoopLinesNoEmpty(c) == <<TotalLine(c)>>

AfterLoopLines(c) ==
    IF c = 0 THEN <<NoResultsLine, TotalLine(c)>> ELSE <<TotalLine(c)>>

\* the statements after the loop, then the function falls off its end
AfterLoop ==
    /\ epc = "after"
    /\ out' = out \o AfterLoopLines(count)
    /\ epc' = "ret"
    /\ UNCHANGED <<mpc, qidx, graph, loadedGraph, sessionFailed, summary>>
    /\ UNCHANGED <<limit, res, pulled, row, count, exc, lastFailed, ret>>
    /\ UNCHANGED acc

\* except Exception as e: every failure of the engine is an Exception
CatchesSyntaxOnly(e) == e = "SyntaxError"

Catches(e) == e \in SubmitFailures \cup IterFailures

\* the except clause followed by the total print, as a finally would do
ExceptThenTotal ==
    /\ epc = "except"
    /\ out' = out \o <<ErrorLine(exc), TotalLine(count)>>
    /\ exc' = "none"
    /\ lastFailed' = TRUE
    /\ epc' = "ret"
    /\ UNCHANGED <<mpc, qidx, graph, loadedGraph, sessionFailed, summary>>
    /\ UNCHANGED <<limit, res, pulled, row, count, ret>>
    /\ UNCHANGED acc

\* except Exception as e: print(f"ERROR executing query: {str(e)}")
\* (an exception the clause does not match leaves the function)
Except ==
    /\ epc = "except"
    /\ IF Catches(exc)
         THEN /\ out' = Append(out, ErrorLine(exc))
              /\ exc' = "none"
              /\ lastFailed' = TRUE
              /\ epc' = "ret"
              /\ mpc' = mpc
         ELSE /\ mpc' = "aborted"
              /\ epc' = "idle"
              /\ UNCHANGED <<out, exc, lastFailed>>
    /\ UNCHANGED <<qidx, graph, loadedGraph, sessionFailed, summary>>
    /\ UNCHANGED <<limit, res, pulled, row, count, ret>>
    /\ UNCHANGED acc

\* the function has no return statement: the caller gets None
Return ==
    /\ epc = "ret"
    /\ epc' = "idle"
    /\ ret' = PyNone
    /\ UNCHANGED <<mpc, qidx, graph, loadedGraph, sessionFailed, summary>>
    /\ UNCHANGED <<limit, res, pulled, row, count, out, exc, lastFailed>>
    /\ UNCHANGED acc

-----------------------------------------------------------------------------
(* validation_queries.py, main *)

\* if __name__ == "__main__": main(); the banner prints of main
MainStart ==
    /\ mpc = "loaded"
    /\ epc = "idle"
    /\ mpc' = "main"
    /\ UNCHANGED <<qidx, graph, loadedGraph, sessionFailed, summary>>
    /\ UNCHANGED callVars
    /\ UNCHANGED acc

\* the query numbers qN each run_*_queries function executes, in the
\* order of its execute_query calls
Range(a, b) == [i \in 1..(b - a + 1) |-> a + i - 1]

QueriesOf(cat) ==
    CASE cat = "clinical" -> Range(1, 8)
      [] cat = "staff" -> Range(9, 12)
      [] cat = "administrative" -> Range(13, 16)
      [] cat = "financial" -> Range(17, 20)
      [] cat = "integration" -> Range(21, 24)
      [] cat = "efficiency" -> Range(25, 28)
      [] cat = "swrl" -> Range(29, 32)
      [] cat = "inference" -> Range(33, 35)
      [] cat = "quality" -> Range(36, 39)
      [] cat = "completeness" -> Range(40, 42)

\* the run_*_queries calls of main, in the order main makes them
MainOrderFinancialFirst ==
    <<"clinical", "staff", "financial", "administrative", "integration",
      "efficiency", "swrl", "inference", "quality", "completeness">>

MainOrder ==
    <<"clinical", "staff", "administrative", "financial", "integration",
      "efficiency", "swrl", "inference", "quality", "completeness">>

RECURSIVE Flatten(_)
Flatten(cats) ==
    IF cats = <<>> THEN <<>> ELSE QueriesOf(Head(cats)) \o Flatten(Tail(cats))

\* the query numbers in the order a run of main executes them
CallOrder == Flatten(MainOrder)

\* the query main executes after query q (q = 0: the first one)
NextQuery(q) ==
    IF q = 0 THEN CallOrder[1]
    ELSE CallOrder[(CHOOSE i \in 1..Len(CallOrder) : CallOrder[i] = q) + 1]

LastQuery == CallOrder[Len(CallOrder)]

CategoryOf(q) ==
    CHOOSE cat \in {MainOrder[i] : i \in DOMAIN MainOrder} :
        \E j \in DOMAIN QueriesOf(cat) : QueriesOf(cat)[j] = q

\* the next execute_query(qN, "N. ...") of run_clinical_queries() ..
\* run_completeness_validation_queries(): always with the default limit
MainCall ==
    /\ mpc = "main"
    /\ qidx # LastQuery
    /\ qidx' = NextQuery(qidx)
    /\ Call(DefaultLimit)
    /\ UNCHANGED <<mpc, graph, loadedGraph, summary>>
    /\ UNCHANGED acc

\* print("VALIDATION COMPLETE - All 42 competency questions executed")
Banner ==
    /\ mpc = "main"
    /\ epc = "idle"
    /\ qidx = LastQuery
    /\ mpc' = "banner"
    /\ UNCHANGED <<qidx, graph, loadedGraph, sessionFailed, summary>>
    /\ UNCHANGED callVars
    /\ UNCHANGED acc

\* a count that leaves out a failed query, where the script prints 42
QueriesExecutedUnlessFailed(failed) == IF failed THEN 41 ELSE 42

\* print(f"Queries Executed: 42"): a literal, whatever the calls did
QueriesExecuted(failed) == 42

\* print(f"Validation Status: COMPLETE"): a literal too
ValidationStatus(failed) == "COMPLETE"

\* the summary statistics and their prints
Summary ==
    /\ mpc = "banner"
    /\ LET total_triples == Cardinality(graph)
           classes == Cardinality(Subjects(graph, "owl:Class"))
           properties == Cardinality(Subjects(graph, "owl:ObjectProperty"))
                           + Cardinality(Subjects(graph, "owl:DatatypeProperty"))
           individuals == Cardinality(Subjects(graph, "any")) - classes - properties
       IN summary' = [triples |-> total_triples, classes |-> classes,
                      properties |-> properties, individuals |-> individuals,
                      executed |-> QueriesExecuted(sessionFailed),
                      status |-> ValidationStatus(sessionFailed)]
    /\ mpc' = "done"
    /\ UNCHANGED <<qidx, graph, loadedGraph, sessionFailed>>
    /\ UNCHANGED callVars
    /\ UNCHANGED acc

Next ==
    \/ Load
    \/ LoadFail
    \/ MainStart
    \/ MainCall
    \/ Submit(MainOutcomes)
    \/ ForNext
    \/ PrintRow
    \/ CheckLimit
    \/ AfterLoop
    \/ Except
    \/ Return
    \/ Banner
    \/ Summary

Spec == Init /\ [][Next]_vars

\* The script is one sequential thread of a running interpreter: it takes
\* its next step whenever it has one.
LiveSpec == Init /\ [][Next]_vars /\ WF_vars(Next)

-----------------------------------------------------------------------------
(* execute_query called by a client of the imported module: the module   *)
(* level has run (the graph is loaded, main has not been started) and    *)
(* the client calls execute_query any number of times, with any limit.   *)

InitSession ==
    /\ mpc = "loaded"
    /\ qidx = 0
    /\ graph \in Ontologies
    /\ loadedGraph = graph
    /\ sessionFailed = FALSE
    /\ summary = NoSummary
    /\ acc = NoAcc
    /\ InitCall

ClientCall ==
    /\ mpc = "loaded"
    /\ \E l \in Limits : Call(l)
    /\ UNCHANGED <<mpc, qidx, graph, loadedGraph, summary>>
    /\ UNCHANGED acc

NextCall ==
    \/ ClientCall
    \/ Submit(HarnessOutcomes)
    \/ ForNext
    \/ PrintRow
    \/ CheckLimit
    \/ AfterLoop
    \/ Except
    \/ Return

SpecCall == InitSession /\ [][NextCall]_vars

-----------------------------------------------------------------------------
(* Ontology_queries.py: a module-level script, one block per query, in   *)
(* this order, with no try statement anywhere.                           *)

OntBlocks == <<"query1", "query2", "query3", "cancel_query",
               "query4", "query5", "query6", "query7">>

\* longest result sequence of a query whose data is left abstract
OntMaxRows == 2

OntOutcomes == Outcomes(SeqsUpTo(RowVals, OntMaxRows))

(* The data the three analysed queries read.  A term is the string of   *)
(* its prefixed name or of its lexical form; "hodp:" stands for the     *)
(* namespace <http://www.semanticweb.org/healthcare-ontology#>.         *)

\* most appointments of each status in a loaded ontology
MaxCompleted == 7
MaxCancelled == 2
MaxNoShow == 1

\* the values a xsd:integer lexical form denotes
LitValue(lex) ==
    CASE lex = "10" -> 10
      [] lex = "15" -> 15
      [] lex = "16" -> 16
      [] lex = "20" -> 20

\* the IRIs whose text holds a '#': those of the hodp namespace
HashIRIs == {"hodp:h1"}

Absent == "none"

Optional(s, p, o) == IF o = Absent THEN {} ELSE {Triple(s, p, o)}

\* a doctor with a name and a labelled specialization, e years of
\* experience (or no such triple) and hospital h (or none)
DoctorTriples(d, e, h) ==
    {Triple(d, "rdf:type", "hodp:Doctor"),
     Triple(d, "hodp:firstName", "fn"),
     Triple(d, "hodp:lastName", "ln"),
     Triple(d, "hodp:hasSpecialization", "hodp:s1"),
     Triple("hodp:s1", "rdfs:label", "Cardiology")}
      \cup Optional(d, "hodp:yearsExperience", e)
      \cup Optional(d, "hodp:worksAt", h)

AppointmentName(i) == "hodp:a" \o ToString(i)

\* appointments first..last, all of one status
StatusTriples(first, last, status) ==
    UNION {{Triple(AppointmentName(i), "rdf:type", "hodp:Appointment"),
            Triple(AppointmentName(i), "hodp:status", status)} :
           i \in first..last}

AppointmentTriples(c, x, n) ==
    StatusTriples(1, c, "Completed")
      \cup StatusTriples(c + 1, c + x, "Cancelled")
      \cup StatusTriples(c + x + 1, c + x + n, "No-show")

\* the ontologies Hospital_ontology.rdf may hold, as far as query1,
\* query3 and cancel_query can tell them apart
OntOntologies ==
    {DoctorTriples("hodp:d1", e1, "hodp:h1")
       \cup DoctorTriples("hodp:d2", e2, "hodp:h1")
       \cup DoctorTriples("hodp:d3", e3, h3)
       \cup AppointmentTriples(c, x, n) :
     e1 \in {"10", "16"}, e2 \in {"16", "20", Absent},
     e3 \in {"15", "20"}, h3 \in {"hodp:h1", "urn:h2", Absent},
     c \in 0..MaxCompleted, x \in 0..MaxCancelled, n \in 0..MaxNoShow}

\* the objects of s p ?o, and the subjects of ?s rdf:type c
Objects(g, s, p) == {t.o : t \in {u \in g : u.s = s /\ u.p = p}}

InstancesOf(g, c) == Subjects(g, c)

\* the sequences that list every element of S once, in non-increasing
\* order of a field: ORDER BY DESC leaves the order of ties to the engine
RowsDescBy(S, field) ==
    {f \in [1..Cardinality(S) -> S] :
        /\ \A i, j \in 1..Cardinality(S) : i # j => f[i] # f[j]
        /\ \A i, j \in 1..Cardinality(S) : i < j => f[i][field] >= f[j][field]}

\* FILTER (?yearsExperience > 15), with a mutation that admits 15
SeniorAtLeast(v) == v >= 15

Senior(v) == v > 15

\* the solutions of query1: one per way of matching all seven patterns
Query1Solutions(g) ==
    UNION {UNION {UNION {UNION {UNION {UNION {
        {[doctor |-> d, firstName |-> f, lastName |-> l,
          specialization |-> lb,
          yearsExperience |-> LitValue(e), hospital |-> h] :
         h \in Objects(g, d, "hodp:worksAt")} :
        e \in {y \in Objects(g, d, "hodp:yearsExperience") :
                 Senior(LitValue(y))}} :
        lb \in Objects(g, sp, "rdfs:label")} :
        sp \in Objects(g, d, "hodp:hasSpecialization")} :
        l \in Objects(g, d, "hodp:lastName")} :
        f \in Objects(g, d, "hodp:firstName")} :
        d \in InstancesOf(g, "hodp:Doctor")}

Query1Rows(g) == RowsDescBy(Query1Solutions(g), "yearsExperience")

\* the appointments that carry status st
WithStatus(g, st) ==
    {a \in InstancesOf(g, "hodp:Appointment") :
        st \in Objects(g, a, "hodp:status")}

StatusesOf(g) ==
    UNION {Objects(g, a, "hodp:status") :
           a \in InstancesOf(g, "hodp:Appointment")}

\* the solutions of query3: GROUP BY ?status with COUNT(?appointment)
Query3Solutions(g) ==
    {[status |-> st, count |-> Cardinality(WithStatus(g, st))] :
     st \in StatusesOf(g)}

Query3Rows(g) == RowsDescBy(Query3Solutions(g), "count")

\* cancel_query: one row, the count of (appointment, status) matches
\* with status "Cancelled" or "No-show"
CancelRows(g) ==
    {<<[problemCount |->
          Cardinality(WithStatus(g, "Cancelled"))
            + Cardinality(WithStatus(g, "No-show"))]>>}

\* the answers of the engine to a query with the solution sequences
\* rowSeqs: all rows, or a failure at submission or after some of them
DataOutcomes(rowSeqs) ==
    Outcomes(rowSeqs)
      \cup UNION {{[rows |-> SubSeq(r, 1, k), stage |-> "iter", desc |-> d] :
                   k \in 0..Len(r), d \in IterFailures} : r \in rowSeqs}

\* what the engine may answer to the query of a block
OntOutcomesOf(block, g) ==
    CASE block = "query1" -> DataOutcomes(Query1Rows(g))
      [] block = "query3" -> DataOutcomes(Query3Rows(g))
      [] block = "cancel_query" -> DataOutcomes(CancelRows(g))
      [] OTHER -> OntOutcomes

InitOnt ==
    /\ mpc = "ont_load"
    /\ qidx = 0
    /\ graph = {}
    /\ loadedGraph = {}
    /\ sessionFailed = FALSE
    /\ summary = NoSummary
    /\ acc = NoAcc
    /\ InitCall

\* g.parse(...) succeeds; "Ontology loaded successfully"
OntLoad ==
    /\ mpc = "ont_load"
    /\ \E o \in OntOntologies :
        /\ graph' = o
        /\ loadedGraph' = o
    /\ mpc' = "ont_query"
    /\ qidx' = 1
    /\ UNCHANGED <<sessionFailed, summary, acc>>
    /\ UNCHANGED callVars

\* g.parse(...) raises: the interpreter stops with a traceback
OntLoadFail ==
    /\ mpc = "ont_load"
    /\ mpc' = "ont_aborted"
    /\ exc' = "LoadError"
    /\ UNCHANGED <<qidx, graph, loadedGraph, sessionFailed, summary, acc>>
    /\ UNCHANGED <<epc, limit, res, pulled, row, count, out, lastFailed, ret>>

\* the heading prints of a block, then resultsN = g.query(queryN); an
\* exception of the engine meets no handler and ends the script.
\* After results3 = g.query(query3) comes total_appointments = 0.
OntSubmit ==
    /\ mpc = "ont_query"
    /\ \E o \in OntOutcomesOf(OntBlocks[qidx], graph) :
        /\ res' = o
        /\ IF o.stage = "submit"
             THEN /\ exc' = o.desc
                  /\ mpc' = "ont_aborted"
                  /\ acc' = acc
             ELSE /\ exc' = exc
                  /\ mpc' = IF OntBlocks[qidx] = "cancel_query"
                              THEN "ont_end" ELSE "ont_loop"
                  /\ acc' = IF OntBlocks[qidx] = "query3"
                              THEN [acc EXCEPT !.total_appointments = 0]
                              ELSE acc
    /\ out' = <<HeaderLine>>
    /\ pulled' = 0
    /\ count' = 0
    /\ graph' = QueryEffect(graph)
    /\ UNCHANGED <<qidx, loadedGraph, sessionFailed, summary>>
    /\ UNCHANGED <<epc, limit, row, lastFailed, ret>>

\* what the body of a block's loop raises on row r, "none" if nothing:
\* query1 prints row.hospital.split('#')[1], an IndexError when the
\* text has no '#'; query3 evaluates int(row.count), and a ResultRow is
\* a tuple, so row.count is the tuple method and int() of it raises
\* TypeError; query2's float(row.cost) raises ValueError on a cost
\* whose text is no number and its row.patient.split('#')[1] an
\* IndexError, both of which the abstract rows leave open.
BodyFails(block, r) ==
    CASE block = "query1" ->
           IF r.hospital \in HashIRIs THEN {"none"} ELSE {"IndexError"}
      [] block = "query2" ->
           {"none", "ValueError: float(row.cost)", "IndexError"}
      [] block = "query3" -> {"TypeError: int(row.count)"}
      [] OTHER -> {"none"}

\* one round of "for row in resultsN": the pull and the loop body
OntRow ==
    /\ mpc = "ont_loop"
    /\ IF pulled < Len(res.rows)
         THEN /\ row' = res.rows[pulled + 1]
              /\ pulled' = pulled + 1
              /\ out' = Append(out, RowLine(res.rows[pulled + 1]))
              /\ acc' = IF OntBlocks[qidx] = "query3"
                          THEN [acc EXCEPT !.status_rows = @ + 1]
                          ELSE acc
              /\ \E e \in BodyFails(OntBlocks[qidx], res.rows[pulled + 1]) :
                   IF e # "none"
                     THEN /\ exc' = e
                          /\ mpc' = "ont_aborted"
                          /\ count' = count
                     ELSE /\ exc' = exc
                          /\ mpc' = mpc
                          /\ count' = count + 1
         ELSE IF res.stage = "iter"
                THEN /\ exc' = res.desc
                     /\ mpc' = "ont_aborted"
                     /\ UNCHANGED <<row, pulled, out, count, acc>>
                ELSE /\ mpc' = "ont_end"
                     /\ UNCHANGED <<row, pulled, out, count, exc, acc>>
    /\ UNCHANGED <<qidx, graph, loadedGraph, sessionFailed, summary>>
    /\ UNCHANGED <<epc, limit, res, lastFailed, ret>>

\* p / t in Python: the ratio, or ZeroDivisionError (den 0) when t = 0
Divide(p, t) == Ratio(p, t)

\* (problem_count / total_appointments) * 100
\*     if total_appointments > 0 else 0
ProblemRatePerMille(p, t) ==
    IF t > 0 THEN [Divide(p, t) EXCEPT !.num = @ * 1000] ELSE Ratio(0, 1)

ProblemRateUnguarded(p, t) == [Divide(p, t) EXCEPT !.num = @ * 100]

ProblemRate(p, t) ==
    IF t > 0 THEN [Divide(p, t) EXCEPT !.num = @ * 100] ELSE Ratio(0, 1)

\* the statements of a block after its loop
OntAfterLoop(block) ==
    /\ exc' = exc
    /\ pulled' = Len(res.rows)
    /\ acc' = acc
    /\ out' = CASE block \in {"query1", "query7"} ->
                     Append(out, TotalLine(Len(res.rows)))
                [] block = "query3" ->
                     Append(out, Line("appointments",
                                      acc.total_appointments, ""))
                [] OTHER -> out

\* cancel_query has no loop: list(problem_results)[0] pulls every row,
\* then come problem_count, problem_rate and the print of the rate
OntRate ==
    IF res.stage = "iter"
      THEN /\ exc' = res.desc
           /\ UNCHANGED <<out, pulled, acc>>
      ELSE IF res.rows = <<>>
        THEN /\ exc' = "IndexError"
             /\ UNCHANGED <<out, pulled, acc>>
        ELSE LET p == res.rows[1].problemCount
                 r == ProblemRate(p, acc.total_appointments)
             IN  /\ pulled' = Len(res.rows)
                 /\ IF r.den = 0
                      THEN /\ exc' = "ZeroDivisionError"
                           /\ acc' = [acc EXCEPT !.problem_count = p]
                           /\ out' = out
                      ELSE /\ exc' = exc
                           /\ acc' = [acc EXCEPT !.problem_count = p,
                                                 !.problem_rate = r,
                                                 !.rated = TRUE]
                           /\ out' = Append(out, Line("rate", r.num, ""))

\* the end of a block, then the next block or the last line, "All
\* queries completed successfully!"; an exception ends the script
OntEnd ==
    /\ mpc = "ont_end"
    /\ IF OntBlocks[qidx] = "cancel_query"
         THEN OntRate
         ELSE OntAfterLoop(OntBlocks[qidx])
    /\ IF exc' # exc
         THEN /\ mpc' = "ont_aborted"
              /\ qidx' = qidx
         ELSE IF qidx < Len(OntBlocks)
                THEN /\ qidx' = qidx + 1
                     /\ mpc' = "ont_query"
                ELSE /\ qidx' = qidx
                     /\ mpc' = "ont_done"
    /\ UNCHANGED <<graph, loadedGraph, sessionFailed, summary>>
    /\ UNCHANGED <<epc, limit, res, row, count, lastFailed, ret>>

NextOnt ==
    \/ OntLoad
    \/ OntLoadFail
    \/ OntSubmit
    \/ OntRow
    \/ OntEnd

SpecOnt == InitOnt /\ [][NextOnt]_vars

\* either script, started on its own
InitBoth == Init \/ InitOnt

NextBoth == Next \/ NextOnt

SpecBoth == InitBoth /\ [][NextBoth]_vars

-----------------------------------------------------------------------------
(* Reading a finished call *)

\* an execute_query call has returned and no other has started since:
\* limit, res, count and out still describe that call
Finished == epc = "idle" /\ ret # PyUnset /\ mpc # "aborted"

IsRowLine(l) == l.kind = "row"
RowLines(o) == SelectSeq(o, IsRowLine)
HasLine(o, l) == \E i \in DOMAIN o : o[i] = l
HasKind(o, k) == \E i \in DOMAIN o : o[i].kind = k

\* the engine raised during the call that has reached its end: at
\* submission, or on the pull after the last row it could yield
EngineRaised ==
    \/ res.stage = "submit"
    \/ res.stage = "iter" /\ pulled = Len(res.rows) /\ ~HasLine(out, NoticeLine)

\* count is bound: the call has passed "count = 0"
CountBound == epc # "try" /\ res.stage # "submit"

Min(a, b) == IF a <= b THEN a ELSE b

\* What a call prints for a result of rows r that ends normally, under a
\* limit l >= 1, written down from the contract rather than from the loop:
\* header, the first min(n, l) rows, the notice when the limit was reached,
\* the no-results line when there is no row, the total.
ExpectedOut(r, l) ==
    LET k == Min(Len(r), l)
    IN  <<HeaderLine>>
        \o [i \in 1..k |-> RowLine(r[i])]
        \o (IF Len(r) >= l THEN <<NoticeLine>> ELSE <<>>)
        \o (IF k = 0 THEN <<NoResultsLine>> ELSE <<>>)
        \o <<TotalLine(k)>>

-----------------------------------------------------------------------------
(* Claims *)

\* C1: when limit >= 1 and the result sequence holds more than limit rows,
\* exactly limit row lines are printed, the truncation notice is printed
\* and the 'Total results' line reports limit.
C1_TruncatedAtLimit ==
    (Finished /\ limit >= 1 /\ Len(res.rows) > limit)
        => /\ Len(RowLines(out)) = limit
           /\ HasLine(out, NoticeLine)
           /\ HasLine(out, TotalLine(limit))
           /\ ~HasKind(out, "error")

C1_Witness ==
    /\ Finished
    /\ limit = 2
    /\ Len(res.rows) = 4
    /\ HasLine(out, NoticeLine)
    /\ HasLine(out, TotalLine(2))

\* C2 as stated: for every non-negative limit, 0 included, the running row
\* counter never exceeds limit, and neither do the number of row lines
\* printed and the reported total.
C2_CountNeverExceedsLimit ==
    CountBound
        => /\ count <= limit
           /\ Len(RowLines(out)) <= limit
           /\ \A i \in DOMAIN out : out[i].kind = "total" => out[i].val <= limit

\* C2 amended: for every limit >= 1 the running row counter never exceeds
\* limit, and neither do the number of row lines printed and the reported
\* total.
C2_CountNeverExceedsPositiveLimit ==
    (CountBound /\ limit >= 1)
        => /\ count <= limit
           /\ Len(RowLines(out)) <= limit
           /\ \A i \in DOMAIN out : out[i].kind = "total" => out[i].val <= limit

C2_Witness ==
    /\ epc = "ret"
    /\ limit = 3
    /\ count = 3
    /\ Len(res.rows) = 4
    /\ HasLine(out, TotalLine(3))

\* C3: a query that executes successfully and yields zero rows prints the
\* no-results message and a total of 0, no row line and no truncation
\* notice, and raises nothing to its caller.
C3_ZeroRows ==
    (Finished /\ res.stage = "none" /\ res.rows = <<>>)
        => /\ out = <<HeaderLine, NoResultsLine, TotalLine(0)>>
           /\ exc = "none"
           /\ ~lastFailed

C3_Witness ==
    /\ Finished
    /\ res.stage = "none"
    /\ res.rows = <<>>
    /\ limit = 0
    /\ sessionFailed
    /\ HasLine(out, NoResultsLine)

\* C4: whenever the engine fails on a query, at submission or while rows
\* are iterated, execute_query prints an error line that carries the
\* failure description and no exception reaches the caller.
C4_EngineFailureCaught ==
    /\ mpc # "aborted"
    /\ (epc \in {"ret", "idle"} /\ EngineRaised)
          => /\ out[Len(out)] = ErrorLine(res.desc)
             /\ exc = "none"

C4_Witness ==
    /\ Finished
    /\ res.stage = "iter"
    /\ res.desc = "TypeError"
    /\ Len(res.rows) = 2
    /\ limit = 3
    /\ out = <<HeaderLine, RowLine(res.rows[1]), RowLine(res.rows[2]),
               ErrorLine("TypeError")>>

\* C5: isolation. A query that executes without failure after some earlier
\* execute_query call of the run has failed prints exactly the rows, notice
\* and total that its own result and limit determine.
C5_Isolation ==
    (epc \in {"ret", "idle"} /\ mpc = "main" /\ qidx >= 1
     /\ sessionFailed /\ res.stage = "none")
        => out = ExpectedOut(res.rows, limit)

C5_Witness ==
    /\ Finished
    /\ qidx = 41
    /\ sessionFailed
    /\ res.stage = "none"
    /\ Len(res.rows) = 3
    /\ out = ExpectedOut(res.rows, DefaultLimit)

\* C6: execute_query returns the count of rows it printed when the query
\* succeeds and the failure sentinel -1 when the query fails.
C6_ReturnsCountOrSentinel ==
    Finished => ret = (IF lastFailed THEN PyInt(-1) ELSE PyInt(count))

\* C7: a limit of 0 means unlimited: all n rows are printed, no truncation
\* notice is printed, the reported total is n.
C7_ZeroMeansUnlimited ==
    (Finished /\ limit = 0 /\ res.stage = "none")
        => /\ Len(RowLines(out)) = Len(res.rows)
           /\ ~HasLine(out, NoticeLine)
           /\ HasLine(out, TotalLine(Len(res.rows)))

\* C8: whatever each of the 42 queries does in the engine, a run of main
\* eventually reaches its final summary step and completes normally.
C8_MainReachesSummary ==
    (mpc = "main") ~> (mpc = "done" /\ exc = "none" /\ summary.executed = 42)

C8_Witness ==
    /\ mpc = "done"
    /\ sessionFailed
    /\ lastFailed
    /\ summary.executed = 42

\* C9: in Ontology_queries.py a failure of the engine on any one query is
\* caught: no engine exception ends the script.
C9_OntEngineFailureCaught ==
    ~(mpc = "ont_aborted" /\ qidx >= 1 /\ exc \in SubmitFailures \cup IterFailures)

\* C10: the graph is read-only after load: whatever the queries do, the
\* set of triples stays the one present right after the load, and the
\* summary reports its size.
C10_GraphReadOnly ==
    /\ mpc # "load" => graph = loadedGraph
    /\ mpc = "done" => summary.triples = Cardinality(loadedGraph)

C10_Witness ==
    /\ mpc = "done"
    /\ sessionFailed
    /\ Cardinality(loadedGraph) = 3
    /\ summary.triples = 3

\* C15: for limit >= 1 and a successful query with n rows, the row lines
\* printed are exactly the first min(n, limit) rows of the engine's
\* sequence, in its order, none skipped or repeated, and the total line
\* reports min(n, limit).
C15_FirstRowsInOrder ==
    (Finished /\ limit >= 1 /\ res.stage = "none")
        => LET k == Min(Len(res.rows), limit)
           IN  /\ RowLines(out) = [i \in 1..k |-> RowLine(res.rows[i])]
               /\ HasLine(out, TotalLine(k))
               /\ \A i \in DOMAIN out : out[i].kind = "total" => out[i].val = k

C15_Witness ==
    /\ Finished
    /\ limit = 3
    /\ res.stage = "none"
    /\ res.rows = <<2, 1, 2, 1>>
    /\ RowLines(out) = <<RowLine(2), RowLine(1), RowLine(2)>>

\* C16: with limit >= 1 at most limit rows are ever pulled from the result
\* sequence in one call, and once the truncation notice has been printed
\* the call pulls no further row.
C16_NoPullAfterNotice ==
    /\ [](limit >= 1 => pulled <= limit)
    /\ [][(epc # "idle" /\ HasLine(out, NoticeLine)) => pulled' = pulled]_vars

C16_Witness ==
    /\ epc = "ret"
    /\ limit = 2
    /\ HasLine(out, NoticeLine)
    /\ pulled = 2
    /\ Len(res.rows) = 4

\* C17: for a successful query whose result sequence holds at most limit
\* rows, exactly limit rows included, no truncation notice is printed.
C17_NoticeOnlyWhenCut ==
    (Finished /\ res.stage = "none" /\ Len(res.rows) <= limit)
        => ~HasLine(out, NoticeLine)

\* C20: when the engine fails after k >= 0 rows were printed, the k row
\* lines stay in the output, followed by the error line, with neither the
\* no-results line nor the total line; every call ends with exactly one of
\* the error line and the total line.
C20_ErrorOrTotal ==
    /\ (Finished /\ EngineRaised)
          => out = <<HeaderLine>>
                     \o [i \in 1..Len(res.rows) |-> RowLine(res.rows[i])]
                     \o <<ErrorLine(res.desc)>>
    /\ Finished
          => /\ out[Len(out)].kind \in {"error", "total"}
             /\ Cardinality({i \in DOMAIN out : out[i].kind \in {"error", "total"}}) = 1

C20_Witness ==
    /\ Finished
    /\ res.stage = "iter"
    /\ limit = 3
    /\ out = <<HeaderLine, RowLine(1), RowLine(2), ErrorLine("ExecutionError")>>

\* C18: main invokes execute_query exactly 42 times, once per catalogue
\* query, in ascending order of the query numbers 1 to 42 (so in the
\* category order clinical, staff, administrative, financial, integration,
\* efficiency, SWRL, inference, quality, completeness), and every
\* invocation happens before the 'VALIDATION COMPLETE' banner.
ClaimedCategoryOrder ==
    <<"clinical", "staff", "administrative", "financial", "integration",
      "efficiency", "swrl", "inference", "quality", "completeness">>

CategoryRank(q) ==
    CHOOSE i \in DOMAIN ClaimedCategoryOrder : ClaimedCategoryOrder[i] = CategoryOf(q)

C18_FortyTwoCallsInOrder ==
    /\ [][(epc = "idle" /\ epc' = "try") => qidx' = qidx + 1]_vars
    /\ [][qidx' # qidx => (epc = "idle" /\ epc' = "try" /\ mpc = "main")]_vars
    /\ [][(qidx' # qidx /\ qidx >= 1) => CategoryRank(qidx') >= CategoryRank(qidx)]_vars
    /\ [](qidx \in 0..NumQueries)
    /\ [](mpc \in {"banner", "done"} => (qidx = NumQueries /\ epc = "idle"))

C18_Witness ==
    /\ mpc = "done"
    /\ qidx = 42
    /\ CategoryOf(qidx) = "completeness"
    /\ ret = PyNone

\* the appointments of g, and those counted as a problem
Appointments(g) == InstancesOf(g, "hodp:Appointment")

ProblemAppointments(g) ==
    {a \in Appointments(g) :
        Objects(g, a, "hodp:status") \cap {"Cancelled", "No-show"} # {}}

\* the script has gone past the rate computation of line 132
RateComputed == acc.rated

\* C11: with no row from the appointment-by-status query the total is 0;
\* the problem rate is then 0 and computing it raises nothing.
C11_ZeroDenominatorRateZero ==
    /\ (RateComputed /\ acc.status_rows = 0 /\ acc.total_appointments = 0)
          => acc.problem_rate = Ratio(0, 1)
    /\ (OntBlocks[IF qidx = 0 THEN 1 ELSE qidx] = "cancel_query"
          /\ acc.status_rows = 0)
          => exc # "ZeroDivisionError"

C11_Witness ==
    /\ RateComputed
    /\ acc.status_rows = 0
    /\ acc.total_appointments = 0
    /\ acc.problem_rate = Ratio(0, 1)
    /\ mpc = "ont_query"
    /\ OntBlocks[qidx] = "query4"

\* C12: the problem rate is 100 * (appointments Cancelled or No-show) /
\* (all appointments): summing the status counts never stops the script,
\* and the rate, once computed, is that share (7, 2 and 1 give 30).
C12_RateIsProblemShare ==
    /\ ~(mpc = "ont_aborted" /\ OntBlocks[IF qidx = 0 THEN 1 ELSE qidx] = "query3"
           /\ exc = "TypeError: int(row.count)")
    /\ RateComputed =>
          acc.problem_rate.num * Cardinality(Appointments(graph))
            = 100 * Cardinality(ProblemAppointments(graph))
                * acc.problem_rate.den

\* the doctors query1 must list: typed hodp:Doctor, named, with a
\* labelled specialization and a hospital, and more than 15 years
StaffedSeniors(g) ==
    {d \in InstancesOf(g, "hodp:Doctor") :
        /\ Objects(g, d, "hodp:firstName") # {}
        /\ Objects(g, d, "hodp:lastName") # {}
        /\ \E sp \in Objects(g, d, "hodp:hasSpecialization") :
              Objects(g, sp, "rdfs:label") # {}
        /\ Objects(g, d, "hodp:worksAt") # {}
        /\ \E y \in Objects(g, d, "hodp:yearsExperience") : LitValue(y) > 15}

\* every hodp:Doctor with more than 15 years, whatever else it has
SeniorDoctors(g) ==
    {d \in InstancesOf(g, "hodp:Doctor") :
        \E y \in Objects(g, d, "hodp:yearsExperience") : LitValue(y) > 15}

\* the lines of out belong to the query1 block, and the block is over
InQuery1 == mpc \in {"ont_loop", "ont_end", "ont_aborted"} /\ qidx = 1

Query1Completed == mpc = "ont_query" /\ qidx = 2

\* the rows printed so far, in order
Printed == [i \in 1..Len(RowLines(out)) |-> RowLines(out)[i].val]

PrintedDoctors == {Printed[i].doctor : i \in DOMAIN Printed}

NonIncreasing ==
    \A i, j \in DOMAIN Printed :
        i < j => Printed[i].yearsExperience >= Printed[j].yearsExperience

TotalIsRowCount ==
    /\ out[Len(out)].kind = "total"
    /\ out[Len(out)].val = Len(Printed)

\* doctors with 10, 16 and 20 years, each with a hospital
ThreeDoctors(g) ==
    /\ Triple("hodp:d1", "hodp:yearsExperience", "10") \in g
    /\ Triple("hodp:d2", "hodp:yearsExperience", "16") \in g
    /\ Triple("hodp:d3", "hodp:yearsExperience", "20") \in g
    /\ Triple("hodp:d3", "hodp:worksAt", "hodp:h1") \in g

C14_NoQueryAfterLoadFailure ==
    /\ [](exc = "LoadError" =>
            /\ mpc \in {"aborted", "ont_aborted"}
            /\ qidx = 0
            /\ epc = "idle"
            /\ res = NoResult
            /\ out = <<>>
            /\ ret = PyUnset
            /\ summary = NoSummary)
    /\ [][exc # "LoadError"]_vars

C14_Witness ==
    /\ exc = "LoadError"
    /\ mpc = "aborted"
    /\ qidx = 0
    /\ res = NoResult

\* what float() and int() raise on a value that is no number
CoercionFailures == {"ValueError: float(row.cost)", "TypeError: int(row.count)"}

\* C19: a value that is no number in the query2 sum or in the query3
\* total is caught and reported for that query: it never ends the script.
C19_CoercionFailureCaught ==
    ~(mpc = "ont_aborted" /\ qidx >= 1 /\ exc \in CoercionFailures)

\* C21: the Individuals figure of the summary is never negative, also
\* when one subject is typed as several of owl:Class, owl:ObjectProperty
\* and owl:DatatypeProperty.
C21_IndividualsNonNegative ==
    mpc = "done" => summary.individuals >= 0

\* the sum of the ?count column of the rows of query3
RECURSIVE SumOfCounts(_)
SumOfCounts(rows) ==
    IF rows = <<>> THEN 0 ELSE Head(rows).count + SumOfCounts(Tail(rows))

\* a ratio between 0 and 100 inclusive
IsPercentage(r) == r.den > 0 /\ r.num >= 0 /\ r.num <= 100 * r.den

C23_ReportsFortyTwoComplete ==
    mpc = "done" =>
        /\ summary.executed = 42
        /\ summary.status = "COMPLETE"
        /\ summary.executed = qidx
        /\ summary.executed = Len(CallOrder)

C23_Witness ==
    /\ mpc = "done"
    /\ sessionFailed
    /\ lastFailed
    /\ res.stage = "submit"
    /\ summary.executed = 42
    /\ summary.status = "COMPLETE"

====
